---- MODULE Spec2Model ----
(***************************************************************************)
(* querychat (python-package/querychat/querychat.py): a chat sidebar whose *)
(* model-invoked tools run SQL on a DuckDB connection and set the          *)
(* dashboard's current query and title.                                    *)
(*                                                                         *)
(* Four specifications :                                                   *)
(*   Spec        a session of server(): greeting, user turns, the two      *)
(*               tools and the host's reads of the filtered data frame;    *)
(*   SpecShared  two sessions that server() starts from one configuration; *)
(*   SpecInit    init(): table-name validation and connection set-up;      *)
(*   SpecSchema  df_to_schema(): one column's block of the schema text.    *)
(***************************************************************************)
EXTENDS Integers, Sequences, FiniteSets, TLC

VARIABLES
    greeting,       \* QueryChatConfig.greeting: NoString or a string (sequence of characters)
    conn,           \* QueryChatConfig.conn: the catalog of the one DuckDB connection
    current_query,  \* current_query[s]: reactive.Value("")
    current_title,  \* current_title[s]: reactive.Value(None)
    calc,           \* calc[s]: the cache of the reactive.Calc filtered_df
    greeted,        \* greeted[s]: greet_on_startup has run
    transcript,     \* transcript[s]: what the handler last run in s put into chat_ui, in order
    model_requests, \* model_requests[s]: chat.stream_async calls of the handler last run in s
    last,           \* last[s]: the handler last run in s, with its arguments
    outcome,        \* outcome[s]: "returned" or "raised", of the handler last run in s
    result_df,      \* result_df[s]: the frame the engine gave query() in its last run
    returned,       \* returned[s]: the value query() last returned to the chat client
    executions,     \* executions[s]: conn.execute calls of the handler last run in s
    engine_error,   \* engine_error[s]: what the engine raised in the handler last run, or NULL
    lastQ,          \* history: query of the last successful update_dashboard that gave one
    lastT,          \* history: title of the last successful update_dashboard that gave one
    ncalls,         \* ncalls[s]: tool calls made so far in s
    table_name,     \* init(): the table_name argument
    init_pc,        \* init(): "call", "raised" or "returned"
    init_conn,      \* init(): duckdb.connect has been called
    init_registered,\* init(): the name the data frame is registered under, or NULL
    column,         \* df_to_schema(): the column summarized
    threshold,      \* df_to_schema(): categorical_threshold
    block           \* df_to_schema(): column_info, the lines of the column's block

sessVars == <<greeting, conn, current_query, current_title, calc, greeted,
              transcript, model_requests, last, outcome, result_df, returned,
              executions, engine_error, lastQ, lastT, ncalls>>
initVars == <<table_name, init_pc, init_conn, init_registered>>
schemaVars == <<column, threshold, block>>
vars == <<sessVars, initVars, schemaVars>>

----------------------------------------------------------------------------
(* Bounds *)

\* rows of the registered data frame
NumRows == 6
\* tool calls in one behaviour of one session
MaxCalls == 2
\* tool calls in one behaviour of two sessions, both together
MaxSharedCalls == 2
\* longest greeting, in characters
MaxGreetingLen == 1
\* longest table name, in characters
MaxNameLen == 3
\* values a column holds, and the distinct values there are
MaxValues == 3
\* largest categorical_threshold tried
MaxThreshold == 3

Sessions == {"s1", "s2"}

NULL == "None"

\* None where a string, held as the sequence of its characters, or a list may stand
NoString == <<NULL>>

Min2(a, b) == IF a <= b THEN a ELSE b

\* the strings over chars of at most n characters
Strings(chars, n) == UNION {[1..k -> chars] : k \in 0..n}

RECURSIVE SumOver(_, _)
SumOver(f, S) ==
    IF S = {} THEN 0
    ELSE LET x == CHOOSE y \in S : TRUE IN f[x] + SumOver(f, S \ {x})

----------------------------------------------------------------------------
(* Data frames and the DuckDB connection *)

\* a data frame is the sequence of its rows; the registered frame has rows 1..NumRows
Df == [i \in 1..NumRows |-> i]

\* DataFrame.head(n)
HeadRows(df, n) == SubSeq(df, 1, Min2(n, Len(df)))

\* maxrows, the cap of the preview
PreviewRows == 5

\* The statements the chat model sends.  Nothing restricts them to SELECT.
SelAll   == "SELECT * FROM tbl"
SelLimit == "SELECT * FROM tbl LIMIT 5"
SelAux   == "SELECT * FROM aux"
MkAux    == "CREATE TABLE aux AS SELECT * FROM tbl"
DropAux  == "DROP TABLE aux"
Bad      == "SELEKT bad syntax"
Empty    == ""
Statements == {SelAll, SelLimit, SelAux, MkAux, DropAux, Bad, Empty}
Queries == Statements \cup {NULL}
Titles == {NULL, "T1", "T2"}

\* the connection's catalog: the registered frame is always there, table aux comes and goes
FreshConn == [aux |-> FALSE]

Raise(c, m) == [ok |-> FALSE, result |-> FALSE, rows |-> <<>>, msg |-> m, conn |-> c]
Rows(c, r) == [ok |-> TRUE, result |-> TRUE, rows |-> r, msg |-> "", conn |-> c]
NoRows(c) == [ok |-> TRUE, result |-> FALSE, rows |-> <<>>, msg |-> "", conn |-> c]

\* conn.execute(q) on catalog c: whether it raises, its result set, the catalog after
Execute(c, q) ==
    CASE q = NULL     -> Raise(c, "not a statement")
      [] q = Empty    -> NoRows(c)
      [] q = SelAll   -> Rows(c, Df)
      [] q = SelLimit -> Rows(c, HeadRows(Df, 5))
      [] q = SelAux   -> IF c.aux THEN Rows(c, Df) ELSE Raise(c, "Table aux does not exist")
      [] q = MkAux    -> IF c.aux THEN Raise(c, "Table aux already exists")
                                  ELSE Rows([c EXCEPT !.aux = TRUE], <<NumRows>>)
      [] q = DropAux  -> IF c.aux THEN Rows([c EXCEPT !.aux = FALSE], <<>>)
                                  ELSE Raise(c, "Table aux does not exist")
      [] OTHER        -> Raise(c, "syntax error")

\* conn.execute(q).fetch_df(): raises as well when the statement left no result set
ExecuteFetch(c, q) ==
    LET r == Execute(c, q)
    IN  IF r.ok /\ ~r.result THEN Raise(r.conn, "no open result set") ELSE r

----------------------------------------------------------------------------
(* What the handlers put into the chat transcript *)

Entry(k, t, r, n) == [kind |-> k, text |-> t, rows |-> r, notice |-> n]

\* append_output(f"\n```sql\n{query}\n```\n\n")
SqlBlock(q) == Entry("sql", q, <<>>, <<>>)

\* append_output(f"> Error: {error_msg}\n\n")
ErrorLine(m) == Entry("error", m, <<>>, <<>>)

\* DataFrame.to_html: one table row for each row of the frame
ToHtml(df) == [i \in 1..Len(df) |-> <<"tr", df[i]>>]

\* DataFrame.to_json(orient="records"): one object for each row of the frame
ToJson(df) == [i \in 1..Len(df) |-> [cell |-> df[i]]]

\* df_to_html(df, maxrows): the table of the first maxrows rows, and the notice
\* "(Showing only the first {maxrows} rows out of {len})" when rows were left out
df_to_html_late(df, maxrows) ==
    LET df_short == HeadRows(df, maxrows)
    IN  [table  |-> ToHtml(df_short),
         notice |-> IF Len(df) > maxrows + 1 THEN <<maxrows, Len(df)>> ELSE <<>>]

df_to_html(df, maxrows) ==
    LET df_short == HeadRows(df, maxrows)
    IN  [table  |-> ToHtml(df_short),
         notice |-> IF Len(df_short) # Len(df) THEN <<maxrows, Len(df)>> ELSE <<>>]

HtmlEntry(h) == Entry("html", "", h.table, h.notice)

\* chat_ui.append_message(greeting)
Message(g) == Entry("message", g, <<>>, <<>>)

\* chat_ui.append_message_stream(stream): the chat model's streamed answer to prompt
Stream(prompt) == Entry("stream", prompt, <<>>, <<>>)

GreetingPrompt == "Please give me a friendly greeting."
UserInput == "user_input"

----------------------------------------------------------------------------
(* The greeting *)

GreetingChars == {"a", "\n"}
Greetings == {NoString} \cup Strings(GreetingChars, MaxGreetingLen)

\* str.split("\n")
RECURSIVE Split(_)
Split(g) ==
    IF \A i \in DOMAIN g : g[i] # "\n" THEN <<g>>
    ELSE LET i == CHOOSE k \in DOMAIN g : g[k] = "\n" /\ \A j \in 1..(k - 1) : g[j] # "\n"
         IN  <<SubSeq(g, 1, i - 1)>> \o Split(SubSeq(g, i + 1, Len(g)))

\* the truth value of an Optional[str]
Truthy(g) == g # NoString /\ Len(g) > 0

\* greeting and any(len(g) > 0 for g in greeting.split("\n")): the test whose two
\* branches are both pass
GreetingProvided(g) ==
    Truthy(g) /\ \E i \in DOMAIN Split(g) : Len(Split(g)[i]) > 0

----------------------------------------------------------------------------
(* server(): one session's reactive state and handlers *)

\* the cache of a reactive.Calc: invalid until read, then the value (or the error)
\* it computed; at and sql record the catalog and the query it was computed from
Invalid == [valid |-> FALSE, ok |-> FALSE, rows |-> <<>>, at |-> FreshConn, sql |-> Empty]

\* the body of filtered_df on catalog c with current query q
filtered_df(c, q) ==
    IF q = Empty THEN Rows(c, Df) ELSE ExecuteFetch(c, q)

\* what chat["df"]() gives: the cached value, or the body's value computed now
FilteredView(cache, c, q) ==
    IF cache.valid THEN [ok |-> cache.ok, rows |-> cache.rows]
    ELSE [ok |-> filtered_df(c, q).ok, rows |-> filtered_df(c, q).rows]

\* reactive.Value.set(new) invalidates the Calc that read the value; setting a value
\* equal to the one held may or may not (the objects are compared, not their contents)
InvalidationsNone(called, old, new) == {FALSE}

Invalidations(called, old, new) ==
    IF ~called THEN {FALSE} ELSE IF old = new THEN {TRUE, FALSE} ELSE {TRUE}

\* update_dashboard: current_query after the call
NewQueryOnce(ok, cur, q) == IF ok /\ q # NULL /\ cur = Empty THEN q ELSE cur

NewQuery(ok, cur, q) == IF ok /\ q # NULL THEN q ELSE cur

\* update_dashboard: current_title after the call
NewTitleEarly(ok, cur, t) == IF t # NULL THEN t ELSE cur

NewTitle(ok, cur, t) == IF ok /\ t # NULL THEN t ELSE cur

\* both tools: the SQL block, then the error line of the except branch or what
\* the tool shows on success
ToolTranscriptErrorFirst(q, r, shown) ==
    IF r.ok THEN <<SqlBlock(q)>> \o shown ELSE <<ErrorLine(r.msg), SqlBlock(q)>>

ToolTranscript(q, r, shown) ==
    <<SqlBlock(q)>> \o (IF r.ok THEN shown ELSE <<ErrorLine(r.msg)>>)

\* raise e
Outcome(r) == IF r.ok THEN "returned" ELSE "raised"

Handler(h, q, t) == [handler |-> h, query |-> q, title |-> t]

\* the state server() sets up for every session of a configuration with greeting g
SessInit(G) ==
    /\ greeting \in G
    /\ conn = FreshConn
    /\ current_query = [s \in Sessions |-> Empty]
    /\ current_title = [s \in Sessions |-> NULL]
    /\ calc = [s \in Sessions |-> Invalid]
    /\ greeted = [s \in Sessions |-> FALSE]
    /\ transcript = [s \in Sessions |-> <<>>]
    /\ model_requests = [s \in Sessions |-> 0]
    /\ last = [s \in Sessions |-> Handler("server", NULL, NULL)]
    /\ outcome = [s \in Sessions |-> "returned"]
    /\ result_df = [s \in Sessions |-> <<>>]
    /\ returned = [s \in Sessions |-> NoString]
    /\ executions = [s \in Sessions |-> 0]
    /\ engine_error = [s \in Sessions |-> NULL]
    /\ lastQ = [s \in Sessions |-> Empty]
    /\ lastT = [s \in Sessions |-> NULL]
    /\ ncalls = [s \in Sessions |-> 0]

\* init() has returned the configuration
InitIdle ==
    /\ table_name = <<"a">>
    /\ init_pc = "returned"
    /\ init_conn = TRUE
    /\ init_registered = <<"a">>

\* df_to_schema() is not running
SchemaIdle ==
    /\ column = [dtype |-> "String", values |-> <<>>]
    /\ threshold = 0
    /\ block = <<>>

Init == SessInit(Greetings) /\ InitIdle /\ SchemaIdle

update_dashboard(s, q, t) ==
    /\ greeted[s]
    /\ LET r == Execute(conn, q)
           nq == NewQuery(r.ok, current_query[s], q)
       IN  /\ transcript' = [transcript EXCEPT ![s] = ToolTranscript(q, r, <<>>)]
           /\ conn' = r.conn
           /\ engine_error' = [engine_error EXCEPT ![s] = IF r.ok THEN NULL ELSE r.msg]
           /\ outcome' = [outcome EXCEPT ![s] = Outcome(r)]
           /\ current_query' = [current_query EXCEPT ![s] = nq]
           /\ current_title' = [current_title EXCEPT ![s] = NewTitle(r.ok, @, t)]
           /\ \E inv \in Invalidations(r.ok /\ q # NULL, current_query[s], nq) :
                 calc' = [calc EXCEPT ![s] = IF inv THEN Invalid ELSE @]
           /\ lastQ' = [lastQ EXCEPT ![s] = IF r.ok /\ q # NULL THEN q ELSE @]
           /\ lastT' = [lastT EXCEPT ![s] = IF r.ok /\ t # NULL THEN t ELSE @]
    /\ executions' = [executions EXCEPT ![s] = 1]
    /\ last' = [last EXCEPT ![s] = Handler("update_dashboard", q, t)]
    /\ model_requests' = [model_requests EXCEPT ![s] = 0]
    /\ ncalls' = [ncalls EXCEPT ![s] = @ + 1]
    /\ UNCHANGED <<greeting, greeted, result_df, returned, initVars, schemaVars>>

\* query(), leaving cq as the sessions' current queries
query_body(s, q, cq) ==
    /\ greeted[s]
    /\ LET r == ExecuteFetch(conn, q)
           tbl_html == df_to_html(r.rows, PreviewRows)
       IN  /\ transcript' = [transcript EXCEPT ![s] =
                                ToolTranscript(q, r, <<HtmlEntry(tbl_html)>>)]
           /\ conn' = r.conn
           /\ engine_error' = [engine_error EXCEPT ![s] = IF r.ok THEN NULL ELSE r.msg]
           /\ outcome' = [outcome EXCEPT ![s] = Outcome(r)]
           /\ result_df' = [result_df EXCEPT ![s] = r.rows]
           /\ returned' = [returned EXCEPT ![s] = IF r.ok THEN ToJson(r.rows) ELSE NoString]
    /\ current_query' = cq
    /\ executions' = [executions EXCEPT ![s] = 1]
    /\ last' = [last EXCEPT ![s] = Handler("query", q, NULL)]
    /\ model_requests' = [model_requests EXCEPT ![s] = 0]
    /\ ncalls' = [ncalls EXCEPT ![s] = @ + 1]
    /\ UNCHANGED <<greeting, greeted, current_title, calc, lastQ, lastT,
                   initVars, schemaVars>>

query_sets(s, q) ==
    query_body(s, q, [current_query EXCEPT ![s] = IF q # NULL THEN q ELSE @])

query(s, q) == query_body(s, q, current_query)

\* the host calls chat["df"](): the Calc runs its body when its cache is invalid
read_df(s) ==
    /\ ~calc[s].valid
    /\ LET r == filtered_df(conn, current_query[s])
       IN  /\ calc' = [calc EXCEPT ![s] = [valid |-> TRUE, ok |-> r.ok, rows |-> r.rows,
                                           at |-> conn, sql |-> current_query[s]]]
           /\ conn' = r.conn
    /\ UNCHANGED <<greeting, current_query, current_title, greeted, transcript,
                   model_requests, last, outcome, result_df, returned, executions,
                   engine_error, lastQ, lastT, ncalls, initVars, schemaVars>>

greet_on_startup(s) ==
    /\ ~greeted[s]
    /\ greeted' = [greeted EXCEPT ![s] = TRUE]
    /\ IF Truthy(greeting)
       THEN /\ transcript' = [transcript EXCEPT ![s] = <<Message(greeting)>>]
            /\ model_requests' = [model_requests EXCEPT ![s] = 0]
       ELSE IF greeting = NoString
       THEN /\ transcript' = [transcript EXCEPT ![s] = <<Stream(GreetingPrompt)>>]
            /\ model_requests' = [model_requests EXCEPT ![s] = 1]
       ELSE /\ transcript' = [transcript EXCEPT ![s] = <<>>]
            /\ model_requests' = [model_requests EXCEPT ![s] = 0]
    /\ last' = [last EXCEPT ![s] = Handler("greet_on_startup", NULL, NULL)]
    /\ outcome' = [outcome EXCEPT ![s] = "returned"]
    /\ executions' = [executions EXCEPT ![s] = 0]
    /\ engine_error' = [engine_error EXCEPT ![s] = NULL]
    /\ UNCHANGED <<greeting, conn, current_query, current_title, calc, result_df,
                   returned, lastQ, lastT, ncalls, initVars, schemaVars>>

on_user_submit(s) ==
    /\ greeted[s]
    /\ transcript' = [transcript EXCEPT ![s] = <<Stream(UserInput)>>]
    /\ model_requests' = [model_requests EXCEPT ![s] = 1]
    /\ last' = [last EXCEPT ![s] = Handler("on_user_submit", NULL, NULL)]
    /\ outcome' = [outcome EXCEPT ![s] = "returned"]
    /\ executions' = [executions EXCEPT ![s] = 0]
    /\ engine_error' = [engine_error EXCEPT ![s] = NULL]
    /\ UNCHANGED <<greeting, conn, current_query, current_title, calc, greeted,
                   result_df, returned, lastQ, lastT, ncalls, initVars, schemaVars>>

\* the chat client calls a tool only while fewer than B tool calls were made
Budget(B) == SumOver(ncalls, Sessions) < B

\* the handlers of the sessions S.  greet_on_startup runs in the session's first
\* flush, before any other handler; the chat client calls the registered tools while
\* it answers, one call at a time, so a tool call is a step of its own
Steps(S, B) ==
    \/ \E s \in S : greet_on_startup(s)
    \/ \E s \in S : on_user_submit(s)
    \/ \E s \in S, q \in Queries, t \in Titles : Budget(B) /\ update_dashboard(s, q, t)
    \/ \E s \in S, q \in Queries : Budget(B) /\ query(s, q)
    \/ \E s \in S : read_df(s)

\* one session
Next == Steps({"s1"}, MaxCalls)

Spec == Init /\ [][Next]_vars

\* two sessions of the same configuration
NextShared == Steps(Sessions, MaxSharedCalls)

SpecShared == Init /\ [][NextShared]_vars

----------------------------------------------------------------------------
(* init(): the table name and the connection *)

NameChars == {"a", "3", "_", "\n", "-"}
TableNames == Strings(NameChars, MaxNameLen)

\* [a-zA-Z]
IsLetter(c) == c = "a"

\* [a-zA-Z0-9_]
IsWordChar(c) == c \in {"a", "3", "_"}

\* $ of a Python pattern without re.MULTILINE, at position p of n: the end of the
\* string, or just before a newline that ends the string
AtDollar(n, p) == p = Len(n) + 1 \/ (p = Len(n) /\ n[p] = "\n")

\* re.match(r"^[a-zA-Z][a-zA-Z0-9_]*$", table_name)
TableNameMatches(n) ==
    /\ Len(n) >= 1
    /\ IsLetter(n[1])
    /\ \E k \in 1..Len(n) :
          /\ \A i \in 2..k : IsWordChar(n[i])
          /\ AtDollar(n, k + 1)

\* conn.register(table_name, df): a name that needs no quoting is registered; what
\* the engine does with any other name is the engine's choice
RegisterOutcomes(n) ==
    IF \A i \in DOMAIN n : IsWordChar(n[i]) THEN {"registered"}
    ELSE {"registered", "raised"}

InitCall ==
    /\ table_name \in TableNames
    /\ init_pc = "call"
    /\ init_conn = FALSE
    /\ init_registered = NoString

init ==
    /\ init_pc = "call"
    /\ IF ~TableNameMatches(table_name)
       THEN /\ init_pc' = "raised"
            /\ UNCHANGED <<init_conn, init_registered>>
       ELSE /\ init_conn' = TRUE
            /\ \E o \in RegisterOutcomes(table_name) :
                  IF o = "registered"
                  THEN init_registered' = table_name /\ init_pc' = "returned"
                  ELSE init_registered' = NoString /\ init_pc' = "raised"
    /\ UNCHANGED <<table_name, sessVars, schemaVars>>

NextInit == init

\* init() is called; no session exists yet
StartInit == SessInit({NoString}) /\ InitCall /\ SchemaIdle

SpecInit == StartInit /\ [][NextInit]_vars

----------------------------------------------------------------------------
(* df_to_schema(): the block of one column *)

IntType == "Int64"
FloatType == "Float64"
DTypes == {IntType, FloatType, "Boolean", "Datetime", "Date", "String", "Categorical"}

\* a cell is missing or holds one of the values 1..MaxValues
Missing == [null |-> TRUE, v |-> 0]
Cell(n) == [null |-> FALSE, v |-> n]
Cells == {Missing} \cup {Cell(n) : n \in 1..MaxValues}
Columns == [dtype : DTypes, values : Strings(Cells, MaxValues)]

\* the if chain over the dtype
SqlType(dtype) ==
    IF dtype = IntType THEN "INTEGER"
    ELSE IF dtype = FloatType THEN "FLOAT"
    ELSE IF dtype = "Boolean" THEN "BOOLEAN"
    ELSE IF dtype = "Datetime" THEN "TIME"
    ELSE IF dtype = "Date" THEN "DATE"
    ELSE "TEXT"

\* Series.drop_nulls()
DropNulls(vs) == SelectSeq(vs, LAMBDA c : ~c.null)

\* Series.unique(): every value once
RECURSIVE Unique(_)
Unique(vs) ==
    IF vs = <<>> THEN <<>>
    ELSE LET rest == Unique(SubSeq(vs, 1, Len(vs) - 1))
             x == vs[Len(vs)]
         IN  IF \E i \in DOMAIN rest : rest[i] = x THEN rest ELSE Append(rest, x)

\* Series.min() and Series.max(): over the values that are not missing, None (<<>>)
\* when there is none
SeriesMin(vs) ==
    LET S == {DropNulls(vs)[i].v : i \in DOMAIN DropNulls(vs)}
    IN  IF S = {} THEN <<>> ELSE <<CHOOSE x \in S : \A y \in S : x <= y>>

SeriesMax(vs) ==
    LET S == {DropNulls(vs)[i].v : i \in DOMAIN DropNulls(vs)}
    IN  IF S = {} THEN <<>> ELSE <<CHOOSE x \in S : \A y \in S : x >= y>>

Line(k, a, b) == [kind |-> k, a |-> a, b |-> b]

\* unique_values.len() <= categorical_threshold
IsCategoricalBelow(n, T) == n < T

IsCategorical(n, T) == n <= T

\* the body of the loop over the columns: column_info
column_info(col, T) ==
    LET sql_type == SqlType(col.dtype)
        unique_values == Unique(DropNulls(col.values))
    IN  <<Line("column", sql_type, <<>>)>> \o
        (IF sql_type = "TEXT"
         THEN IF IsCategorical(Len(unique_values), T)
              THEN <<Line("categorical", unique_values, <<>>)>>
              ELSE <<>>
         ELSE IF sql_type \in {"INTEGER", "FLOAT", "DATE", "TIME"}
         THEN <<Line("range", SeriesMin(col.values), SeriesMax(col.values))>>
         ELSE <<>>)

SchemaCall ==
    /\ column \in Columns
    /\ threshold \in 0..MaxThreshold
    /\ block = <<>>

df_to_schema ==
    /\ block = <<>>
    /\ block' = column_info(column, threshold)
    /\ UNCHANGED <<column, threshold, sessVars, initVars>>

NextSchema == df_to_schema

\* df_to_schema() is called on a column
StartSchema == SessInit({NoString}) /\ InitIdle /\ SchemaCall

SpecSchema == StartSchema /\ [][NextSchema]_vars

----------------------------------------------------------------------------
(* Properties *)

Tools == {"update_dashboard", "query"}

\* C1: a call of update_dashboard whose statement the engine rejects raises, and
\* leaves the session's current query and current title as they were before it.
C1_FailedUpdateChangesNothing ==
    [][\A s \in Sessions :
          (/\ ncalls'[s] # ncalls[s]
           /\ last'[s].handler = "update_dashboard"
           /\ engine_error'[s] # NULL)
          => (/\ outcome'[s] = "raised"
              /\ current_query'[s] = current_query[s]
              /\ current_title'[s] = current_title[s])]_vars

\* a failed update_dashboard, with a title and a query of its own, in a session
\* whose query and title an earlier call had set
C1_Witness ==
    \E s \in Sessions :
        /\ last[s].handler = "update_dashboard"
        /\ engine_error[s] # NULL
        /\ outcome[s] = "raised"
        /\ current_query[s] # Empty
        /\ current_title[s] # NULL
        /\ last[s].title \notin {NULL, current_title[s]}
        /\ last[s].query \notin {NULL, current_query[s]}

\* C2: the current query is the query of the most recent successful update_dashboard
\* call that gave one ("" when there was none), the current title is the title of the
\* most recent successful call that gave one (None when there was none), each
\* whatever the other is.
C2_StateIsLastSuccessfulUpdate ==
    \A s \in Sessions :
        /\ current_query[s] = lastQ[s]
        /\ current_title[s] = lastT[s]

\* a second successful update_dashboard without a title: the query is the new one,
\* the title is still the one of the earlier call
C2_Witness ==
    \E s \in Sessions :
        /\ ncalls[s] >= 2
        /\ last[s].handler = "update_dashboard"
        /\ outcome[s] = "returned"
        /\ last[s].title = NULL
        /\ current_title[s] # NULL
        /\ current_query[s] = last[s].query
        /\ current_query[s] # Empty

\* C3 as stated: what the host reads from the filtered data frame is the registered
\* frame when the current query is empty, and otherwise what executing the current
\* query on the engine gives.
C3_ViewIsCurrentResult ==
    \A s \in Sessions :
        LET v == FilteredView(calc[s], conn, current_query[s])
            r == filtered_df(conn, current_query[s])
        IN  IF current_query[s] = Empty
            THEN v.ok /\ v.rows = Df
            ELSE v.ok = r.ok /\ v.rows = r.rows

\* C3 as amended: what the host reads is the registered frame when the current query
\* is empty, and otherwise what executing the current query gave when the view was
\* last recomputed, on the engine as it was then; it is never the result of an
\* earlier current query.
C3_ViewFollowsCurrentQuery ==
    \A s \in Sessions :
        LET v == FilteredView(calc[s], conn, current_query[s])
            at == IF calc[s].valid THEN calc[s].at ELSE conn
            r == ExecuteFetch(at, current_query[s])
        IN  /\ calc[s].valid => calc[s].sql = current_query[s]
            /\ IF current_query[s] = Empty
               THEN v.ok /\ v.rows = Df
               ELSE v.ok = r.ok /\ v.rows = r.rows

\* the host has read the view of a current query that keeps fewer rows than the
\* registered frame has, set after an earlier call
C3_Witness ==
    \E s \in Sessions :
        /\ calc[s].valid
        /\ ncalls[s] >= 2
        /\ current_query[s] # Empty
        /\ calc[s].ok
        /\ Len(calc[s].rows) < NumRows

\* C4: a step changes a session's current query or current title only when it is a
\* successful update_dashboard call of that session; query() (successful or not),
\* a user submission and the greeting at session start leave both unchanged.
C4_OnlyUpdateChangesState ==
    [][\A s \in Sessions :
          (current_query'[s] # current_query[s] \/ current_title'[s] # current_title[s])
          => (/\ ncalls'[s] = ncalls[s] + 1
              /\ last'[s].handler = "update_dashboard"
              /\ engine_error'[s] = NULL
              /\ outcome'[s] = "returned")]_vars

\* query() has run a statement other than the current query, after an
\* update_dashboard call had set the current query and title
C4_Witness ==
    \E s \in Sessions :
        /\ last[s].handler = "query"
        /\ outcome[s] = "returned"
        /\ current_query[s] # Empty
        /\ current_title[s] # NULL
        /\ last[s].query \notin {NULL, current_query[s]}

\* C5: at session start one greeting is placed in the transcript: a configured
\* greeting that is not blank is shown verbatim with no model request; in every other
\* case (None, empty, only blank lines) one model request for a greeting is made and
\* its answer streamed into the transcript.
C5_OneGreeting ==
    \A s \in Sessions :
        last[s].handler = "greet_on_startup"
        => IF GreetingProvided(greeting)
           THEN transcript[s] = <<Message(greeting)>> /\ model_requests[s] = 0
           ELSE transcript[s] = <<Stream(GreetingPrompt)>> /\ model_requests[s] = 1

\* C6: after a successful query() whose result has n rows, the value returned holds
\* all n rows, the preview in the transcript holds min(n, 5) rows, and the preview
\* has the notice, citing n, exactly when n > 5.
C6_PreviewCappedReturnFull ==
    \A s \in Sessions :
        (last[s].handler = "query" /\ outcome[s] = "returned")
        => LET n == Len(result_df[s])
               html == transcript[s][Len(transcript[s])]
           IN  /\ Len(returned[s]) = n
               /\ \A i \in 1..n : returned[s][i] = [cell |-> result_df[s][i]]
               /\ Len(transcript[s]) = 2
               /\ html.kind = "html"
               /\ Len(html.rows) = Min2(n, 5)
               /\ \A i \in 1..Len(html.rows) : html.rows[i] = <<"tr", result_df[s][i]>>
               /\ (html.notice # <<>>) <=> (n > 5)
               /\ (n > 5) => html.notice = <<5, n>>

\* a successful query() whose result has more than 5 rows
C6_Witness ==
    \E s \in Sessions :
        /\ last[s].handler = "query"
        /\ outcome[s] = "returned"
        /\ Len(result_df[s]) > 5
        /\ Len(returned[s]) > 5

\* C7: init raises, before a connection is created or a frame registered, for every
\* table name that is not a letter followed only by letters, digits and underscores,
\* and for every name of that form it returns the configuration.
C7_InitRejectsOtherNames ==
    init_pc # "call"
    => IF /\ Len(table_name) >= 1
          /\ IsLetter(table_name[1])
          /\ \A i \in 2..Len(table_name) : IsWordChar(table_name[i])
       THEN init_pc = "returned" /\ init_conn /\ init_registered = table_name
       ELSE init_pc = "raised" /\ ~init_conn /\ init_registered = NoString

\* C8: when the statement of a tool call fails, the transcript gets the SQL block
\* first and then one error line with the engine's message, the call raises, and the
\* statement was executed once.
C8_FailureShownThenRaised ==
    \A s \in Sessions :
        (last[s].handler \in Tools /\ engine_error[s] # NULL)
        => /\ transcript[s] = <<SqlBlock(last[s].query), ErrorLine(engine_error[s])>>
           /\ outcome[s] = "raised"
           /\ executions[s] = 1

\* query() has failed on a statement the engine rejects
C8_Witness ==
    \E s \in Sessions :
        /\ last[s].handler = "query"
        /\ last[s].query # NULL
        /\ engine_error[s] # NULL
        /\ outcome[s] = "raised"

CountLines(k) == Cardinality({i \in DOMAIN block : block[i].kind = k})
DistinctValues ==
    Cardinality({column.values[i].v :
                    i \in {j \in DOMAIN column.values : ~column.values[j].null}})

\* C9: the block of a column carries one of: a categorical line, a range line,
\* nothing.  A text column has the categorical line exactly when it has at most
\* threshold distinct values that are not missing, and never a range line; an
\* integer, float, date or datetime column has a range line; a boolean column has
\* neither.
C9_OneAnnotationByType ==
    block # <<>>
    => /\ block[1].kind = "column"
       /\ CountLines("column") = 1
       /\ CountLines("categorical") + CountLines("range") = Len(block) - 1
       /\ Len(block) <= 2
       /\ column.dtype \in {"String", "Categorical"}
          => /\ CountLines("categorical") = 1 <=> DistinctValues <= threshold
             /\ CountLines("range") = 0
       /\ column.dtype \in {IntType, FloatType, "Date", "Datetime"}
          => CountLines("range") = 1 /\ CountLines("categorical") = 0
       /\ column.dtype = "Boolean" => Len(block) = 1

\* a text column with exactly threshold distinct values, listed as categorical
C9_Witness ==
    /\ block # <<>>
    /\ column.dtype = "String"
    /\ threshold > 0
    /\ DistinctValues = threshold
    /\ Len(column.values) > DistinctValues
    /\ CountLines("categorical") = 1

\* C10: a tool call of one session changes neither the current query, nor the
\* current title, nor what the filtered data frame gives, of another session.
C10_SessionsIsolated ==
    [][\A a \in Sessions, b \in Sessions :
          (a # b /\ ncalls'[a] # ncalls[a])
          => (/\ current_query'[b] = current_query[b]
              /\ current_title'[b] = current_title[b]
              /\ FilteredView(calc'[b], conn', current_query'[b])
                    = FilteredView(calc[b], conn, current_query[b]))]_vars

====
